---- MODULE Spec2Model ----
(***************************************************************************)
(* SiSy backend: the /chat handler (backend/main.py) and                   *)
(* SiSyAgent.process_message with its tool loop (backend/agent.py).        *)
(*                                                                         *)
(* Strings are sequences of tokens.  A text the code scans character by    *)
(* character (a model reply searched for <think> spans, a time argument    *)
(* searched for HH:MM) is written one character per token; an opaque word  *)
(* (a tool name, a title) is a single token.  An f-string is the           *)
(* concatenation of its parts.                                             *)
(***************************************************************************)
EXTENDS Integers, Sequences, FiniteSets, TLC

\* ------------------------------------------------------------------ values

\* A JSON value a tool-call argument may hold: null, a string, a number.
Null == [t |-> "null", v |-> <<>>]
Str(s) == [t |-> "str", v |-> s]
Num(s) == [t |-> "int", v |-> s]

\* ------------------------------------------------- SiSyAgent._strip_thinking_tags

OpenTag == <<"<", "t", "h", "i", "n", "k", ">">>
CloseTag == <<"<", "/", "t", "h", "i", "n", "k", ">">>
Whitespace == {" ", "\n", "\t"}

\* s has p at position i
StartsWithAt(s, i, p) ==
    /\ i + Len(p) - 1 <= Len(s)
    /\ \A k \in 1..Len(p) : s[i + k - 1] = p[k]

\* the first position >= i where p occurs in s, 0 when there is none
FindFrom(s, i, p) ==
    LET hits == {j \in i..Len(s) : StartsWithAt(s, j, p)}
    IN IF hits = {} THEN 0 ELSE CHOOSE j \in hits : \A k \in hits : j <= k

\* a plausible slip: .* in place of .*?, the span runs to the last closing tag
RECURSIVE ReSubThinkGreedy(_, _)
ReSubThinkGreedy(s, i) ==
    LET closes == {j \in (i + Len(OpenTag))..Len(s) : StartsWithAt(s, j, CloseTag)}
    IN IF i > Len(s) THEN <<>>
       ELSE IF StartsWithAt(s, i, OpenTag) /\ closes # {}
            THEN ReSubThinkGreedy(s, (CHOOSE j \in closes : \A k \in closes : j >= k)
                                     + Len(CloseTag))
            ELSE <<s[i]>> \o ReSubThinkGreedy(s, i + 1)

\* re.sub(r'<think>.*?</think>', '', content, flags=re.DOTALL): one pass from
\* the left; at an opening tag with a closing tag after it the span up to the
\* nearest closing tag is dropped and the scan goes on behind it.
RECURSIVE ReSubThink(_, _)
ReSubThink(s, i) ==
    IF i > Len(s) THEN <<>>
    ELSE IF StartsWithAt(s, i, OpenTag) /\ FindFrom(s, i + Len(OpenTag), CloseTag) # 0
         THEN ReSubThink(s, FindFrom(s, i + Len(OpenTag), CloseTag) + Len(CloseTag))
         ELSE <<s[i]>> \o ReSubThink(s, i + 1)

\* str.strip(): leading and trailing whitespace removed
PyStrip(s) ==
    LET keep == {i \in 1..Len(s) : s[i] \notin Whitespace}
    IN IF keep = {} THEN <<>>
       ELSE SubSeq(s, CHOOSE i \in keep : \A k \in keep : i <= k,
                      CHOOSE i \in keep : \A k \in keep : i >= k)

\* a plausible slip: the content is returned as the model sent it
StripThinkingTagsRaw(content) == content

StripThinkingTags(content) == PyStrip(ReSubThink(content, 1))

\* --------------------------------------------------------------- the tools

RoutineTool == "upsert_routine_item"
ProfileTool == "upsert_profile_field"
AGENT_TOOLS == {RoutineTool, ProfileTool}

\* the parameters of each tool function: the required ones and all of them
RequiredArgs(name) ==
    IF name = RoutineTool THEN {"title"} ELSE {"key", "value"}
DeclaredArgs(name) ==
    IF name = RoutineTool THEN {"title", "time", "description", "id"}
    ELSE {"key", "value", "group"}

\* the tool function's return value (its f-string)
ToolBody(name, args) ==
    IF name = RoutineTool
    THEN <<"Routine item '">> \o args["title"].v \o <<"' created/updated successfully.">>
    ELSE <<"Profile field '">> \o args["key"].v \o <<"' updated successfully.">>

\* ----------------------------------- SiSyAgent._extract_actions_from_tool_calls

Digits == {"0", "1", "2", "3", "4", "5", "6", "7", "8", "9"}

\* the length of the match of \d{1,2}:\d{2} starting at i (two digits are
\* tried before one), 0 when there is none
MatchHHMMAt(s, i) ==
    IF /\ i + 4 <= Len(s)
       /\ s[i] \in Digits /\ s[i + 1] \in Digits /\ s[i + 2] = ":"
       /\ s[i + 3] \in Digits /\ s[i + 4] \in Digits
    THEN 5
    ELSE IF /\ i + 3 <= Len(s)
            /\ s[i] \in Digits /\ s[i + 1] = ":"
            /\ s[i + 2] \in Digits /\ s[i + 3] \in Digits
         THEN 4
         ELSE 0

\* re.search(r"(\d{1,2}:\d{2})", value): the leftmost match, <<>> when none
ReSearchHHMM(s) ==
    LET hits == {i \in 1..Len(s) : MatchHHMMAt(s, i) > 0}
        first == CHOOSE i \in hits : \A k \in hits : i <= k
    IN IF hits = {} THEN <<>> ELSE SubSeq(s, first, first + MatchHHMMAt(s, first) - 1)

\* a plausible slip: a time without a match is emptied instead of kept
SanitizeArgDropUnmatched(key, value) ==
    IF key = "time" /\ value.t = "str" THEN Str(ReSearchHHMM(value.v)) ELSE value

\* a plausible slip: the pattern is looked for in every string argument
SanitizeArgAnyKey(key, value) ==
    IF value.t = "str" /\ ReSearchHHMM(value.v) # <<>>
    THEN Str(ReSearchHHMM(value.v))
    ELSE value

\* the value stored under key: a string time is replaced by its HH:MM match
SanitizeArg(key, value) ==
    IF key = "time" /\ value.t = "str" /\ ReSearchHHMM(value.v) # <<>>
    THEN Str(ReSearchHHMM(value.v))
    ELSE value

\* a plausible slip: the check for None is missing, null arguments are copied
ActionOfToolCallWithNulls(tc) ==
    [k \in {"type"} \cup DOMAIN tc.args |->
        IF k \in DOMAIN tc.args THEN SanitizeArg(k, tc.args[k]) ELSE Str(<<tc.name>>)]

\* action = {"type": tool_name}, then action[key] = value for every non-null
\* argument: an argument named "type" overwrites the tool name
ActionOfToolCall(tc) ==
    LET given == {k \in DOMAIN tc.args : tc.args[k].t # "null"}
    IN [k \in {"type"} \cup given |->
          IF k \in given THEN SanitizeArg(k, tc.args[k]) ELSE Str(<<tc.name>>)]

\* a plausible slip: each action is put in front of the list
RECURSIVE ExtractActionsReversed(_)
ExtractActionsReversed(tool_calls) ==
    IF tool_calls = <<>> THEN <<>>
    ELSE IF Head(tool_calls).name \notin AGENT_TOOLS
         THEN ExtractActionsReversed(Tail(tool_calls))
         ELSE ExtractActionsReversed(Tail(tool_calls))
              \o <<ActionOfToolCall(Head(tool_calls))>>

\* a plausible slip: the check of the tool name is missing
RECURSIVE ExtractActionsUnchecked(_)
ExtractActionsUnchecked(tool_calls) ==
    IF tool_calls = <<>> THEN <<>>
    ELSE <<ActionOfToolCall(Head(tool_calls))>>
         \o ExtractActionsUnchecked(Tail(tool_calls))

\* a plausible slip: a call that is repeated later in the reply is merged
\* into the later one
RECURSIVE ExtractActionsDeduplicated(_)
ExtractActionsDeduplicated(tool_calls) ==
    IF tool_calls = <<>> THEN <<>>
    ELSE LET tc == Head(tool_calls)
             rest == Tail(tool_calls)
         IN IF tc.name \notin AGENT_TOOLS
               \/ \E i \in 1..Len(rest) : rest[i].name = tc.name /\ rest[i].args = tc.args
            THEN ExtractActionsDeduplicated(rest)
            ELSE <<ActionOfToolCall(tc)>> \o ExtractActionsDeduplicated(rest)

RECURSIVE ExtractActionsFromToolCalls(_)
ExtractActionsFromToolCalls(tool_calls) ==
    IF tool_calls = <<>> THEN <<>>
    ELSE IF Head(tool_calls).name \notin AGENT_TOOLS
         THEN ExtractActionsFromToolCalls(Tail(tool_calls))
         ELSE <<ActionOfToolCall(Head(tool_calls))>>
              \o ExtractActionsFromToolCalls(Tail(tool_calls))

\* ------------------------------------------------------ SiSyAgent._execute_tool

\* tool_map[tool_name].invoke(args) validates args against the function's
\* signature before the body runs.  A required argument that is missing or
\* null is always refused; a number where a string is declared is refused or
\* coerced depending on the validation library in use, so both can happen.
InvokeOutcomes(name, args) ==
    LET present == {k \in DOMAIN args : args[k].t # "null"}
    IN IF \E k \in RequiredArgs(name) : k \notin present THEN {"raise"}
       ELSE IF \E k \in DeclaredArgs(name) \cap present : args[k].t # "str"
            THEN {"ok", "raise"}
            ELSE {"ok"}

\* The possible outcomes of _execute_tool: the string it returns, whether the
\* body of a registered tool ran, and whether an exception was caught.
ExecuteTool(name, args) ==
    IF name \in AGENT_TOOLS
    THEN {[content |-> ToolBody(name, args), ran |-> TRUE, caught |-> FALSE]
             : o \in InvokeOutcomes(name, args) \cap {"ok"}}
         \cup
         {[content |-> <<"Error executing ", name, ": ", "ValidationError">>,
           ran |-> FALSE, caught |-> TRUE]
             : o \in InvokeOutcomes(name, args) \cap {"raise"}}
    ELSE {[content |-> <<"Unknown tool: ", name>>, ran |-> FALSE, caught |-> FALSE]}

\* ------------------------------------------------------------- bounds, inputs

\* the most tool calls one reply of the first invocation carries
MaxCalls == 3
\* the most tool calls one reply of the second invocation carries
MaxFinalCalls == 1

NoArgs == [k \in {} |-> Null]

\* The tool calls the model may emit in its first reply: registered and
\* hallucinated names, complete, incomplete, null and mistyped arguments, a
\* noisy time, and an argument named like the discriminator.
CallPool ==
    { [name |-> RoutineTool,
       args |-> ("title" :> Str(<<"Nap">>))
                @@ ("time" :> Str(<<"a", "t", " ", "1", "4", ":", "3", "0", "?">>))
                @@ ("id" :> Null)],
      [name |-> RoutineTool,
       args |-> ("title" :> Null) @@ ("time" :> Str(<<"n", "o", "o", "n">>))],
      [name |-> RoutineTool,
       args |-> ("title" :> Str(<<"Gym">>)) @@ ("time" :> Num(<<"9">>))],
      [name |-> RoutineTool,
       args |-> ("title" :> Str(<<"Tea">>)) @@ ("type" :> Str(<<"explode">>))],
      [name |-> ProfileTool,
       args |-> ("key" :> Str(<<"Age">>)) @@ ("value" :> Str(<<"35">>))],
      [name |-> ProfileTool, args |-> ("value" :> Str(<<"35">>))],
      [name |-> "delete_everything", args |-> NoArgs] }

\* The tool calls the model may emit in its second reply.
FinalCallPool ==
    { [name |-> ProfileTool,
       args |-> ("key" :> Str(<<"Job">>)) @@ ("value" :> Str(<<"dev">>))] }

RECURSIVE SeqsUpTo(_, _)
SeqsUpTo(S, n) ==
    IF n = 0 THEN {<<>>}
    ELSE LET shorter == SeqsUpTo(S, n - 1)
         IN shorter \cup {Append(q, x) : q \in {r \in shorter : Len(r) = n - 1}, x \in S}

\* each call of a reply carries its own call id
WithIds(calls) ==
    [i \in 1..Len(calls) |-> [name |-> calls[i].name, args |-> calls[i].args, id |-> i]]

\* the texts a model reply may carry
PlainText == <<"Sure, happy to help!">>
ThinkText == OpenTag \o <<"X">> \o CloseTag \o <<"\n", "Y", " ">>
OpenOnlyText == OpenTag \o <<"X">>
ReplyTexts == {PlainText, ThinkText, OpenOnlyText}
FinalTexts == {<<"Done.">>, <<" ">> \o OpenTag \o CloseTag \o <<"O", "K">>}

FirstReplies ==
    {[content |-> c, tool_calls |-> WithIds(q)] :
        c \in ReplyTexts, q \in SeqsUpTo(CallPool, MaxCalls)}
FinalReplies ==
    {[content |-> c, tool_calls |-> WithIds(q)] :
        c \in FinalTexts, q \in SeqsUpTo(FinalCallPool, MaxFinalCalls)}

\* One entry of message_history as chat() hands it over: a mapping with a role
\* and a text, or something that is no mapping.
Turn(role, text) == [isdict |-> TRUE, role |-> role, text |-> text]
NotADict == [isdict |-> FALSE, role |-> "", text |-> <<>>]

\* The /chat requests: the form fields, and what the image analysis does.
\* vlm: "ok" (a description), "nocontent" (a reply without content), "fail".
ChatRequests ==
    { [text |-> <<"hi">>, conversation_id |-> Null, image |-> FALSE, vlm |-> "ok",
       user_context |-> Null, message_history |-> <<>>],
      [text |-> <<"plan">>, conversation_id |-> Str(<<"c1">>), image |-> TRUE, vlm |-> "ok",
       user_context |-> Str(<<"ctx">>),
       message_history |-> <<Turn("user", <<"q">>), Turn("assistant", <<"a">>)>>],
      [text |-> <<"pic">>, conversation_id |-> Null, image |-> TRUE, vlm |-> "fail",
       user_context |-> Null,
       message_history |-> <<NotADict, Turn("user", <<>>), Turn("system", <<"s">>),
                             Turn("assistant", <<"a">>), Turn("user", <<"q">>)>>],
      [text |-> <<"pic">>, conversation_id |-> Null, image |-> TRUE, vlm |-> "nocontent",
       user_context |-> Null, message_history |-> <<>>] }

\* ------------------------------------------------------------------ state

VARIABLES
    pc,                \* where the request is: idle, llm1, tools, llm2, returned, raised, done
    request,           \* the request being served
    message_history,   \* the caller's history list
    messages,          \* process_message: the per-request message list
    tool_calls,        \* process_message: the first reply's tool calls
    actions,           \* process_message: the action list
    response_content,  \* process_message: the cleaned text
    tc_index,          \* process_message: the position of the tool loop
    result,            \* what process_message returned: <<>> or <<dict>>
    http_status,       \* the status /chat answered with, 0 while it has not
    http_body,         \* the ChatSendResponse /chat answered with: <<>> or <<body>>
    llm_log,           \* every model invocation and its outcome, in order
    tool_log,          \* every _execute_tool call and its outcome, in order
    aux                \* the state of the specifications beside Spec (a record)

\* the state of /chat and process_message
chatVars == <<pc, request, message_history, messages, tool_calls, actions,
              response_content, tc_index, result, http_status, http_body, llm_log, tool_log>>

vars == <<chatVars, aux>>

\* aux while Spec runs
NoAux == [phase |-> "unused"]

NoReply == [content |-> <<>>, tool_calls |-> <<>>]
NoRequest == [text |-> <<>>, conversation_id |-> Null, image |-> FALSE, vlm |-> "ok",
              user_context |-> Null, message_history |-> <<>>]

\* the messages of the conversation
Msg(role, content) == [role |-> role, content |-> content, tool_calls |-> <<>>, tool_call_id |-> 0]
AIReply(reply) ==
    [role |-> "ai", content |-> reply.content, tool_calls |-> reply.tool_calls, tool_call_id |-> 0]
\* a plausible slip: the tool message does not carry the id of its call
ToolMessageNoId(content, id) ==
    [role |-> "tool", content |-> content, tool_calls |-> <<>>, tool_call_id |-> 0]

ToolMessage(content, id) ==
    [role |-> "tool", content |-> content, tool_calls |-> <<>>, tool_call_id |-> id]

\* the entries of llm_log
Invoked(msgs) == [ev |-> "invoke", msgs |-> msgs, reply |-> NoReply]
Replied(reply) == [ev |-> "reply", msgs |-> <<>>, reply |-> reply]
Failed == [ev |-> "fail", msgs |-> <<>>, reply |-> NoReply]

\* no request yet
ChatInit ==
    /\ pc = "idle"
    /\ request = NoRequest
    /\ message_history = <<>>
    /\ messages = <<>>
    /\ tool_calls = <<>>
    /\ actions = <<>>
    /\ response_content = <<>>
    /\ tc_index = 1
    /\ result = <<>>
    /\ http_status = 0
    /\ http_body = <<>>
    /\ llm_log = <<>>
    /\ tool_log = <<>>

Init == ChatInit /\ aux = NoAux

\* -------------------------------------------- process_message: the conversation

\* SYSTEM_PROMPT.format(...): the profile and routine of user_context, or the
\* defaults "{}" and "[]" when there is none
SystemPrompt(user_context) ==
    IF user_context.t = "null"
    THEN <<"SYSTEM_PROMPT", "{}", "[]">>
    ELSE <<"SYSTEM_PROMPT">> \o user_context.v \o <<".profile">> \o user_context.v \o <<".routine">>

\* a plausible slip: after a failed analysis the text goes on without a note
CurrentTurnTextNoNote(req) ==
    IF ~req.image \/ req.vlm = "fail" THEN req.text
    ELSE req.text
         \o <<"\n\n[System Note: The user attached an image. Here is the analysis of the image content: ">>
         \o (IF req.vlm = "ok" THEN <<"a photo">> ELSE <<"Image content analysis failed.">>)
         \o <<"]">>

\* the current turn: the user's text, followed by a note when an image came
CurrentTurnText(req) ==
    IF ~req.image THEN req.text
    ELSE IF req.vlm = "fail"
         THEN req.text \o <<"\n\n[System Note: The user attached an image, but analysis failed.]">>
         ELSE req.text
              \o <<"\n\n[System Note: The user attached an image. Here is the analysis of the image content: ">>
              \o (IF req.vlm = "ok" THEN <<"a photo">> ELSE <<"Image content analysis failed.">>)
              \o <<"]">>

\* a plausible slip: the newest entry is put first
RECURSIVE HistoryMessagesReversed(_)
HistoryMessagesReversed(history) ==
    IF history = <<>> THEN <<>>
    ELSE LET msg == Head(history)
             rest == HistoryMessagesReversed(Tail(history))
         IN IF ~msg.isdict \/ msg.text = <<>> THEN rest
            ELSE IF msg.role = "user" THEN rest \o <<Msg("human", msg.text)>>
            ELSE IF msg.role = "assistant" THEN rest \o <<Msg("ai", msg.text)>>
            ELSE rest

\* the history entries that become messages, in the caller's order
RECURSIVE HistoryMessages(_)
HistoryMessages(history) ==
    IF history = <<>> THEN <<>>
    ELSE LET msg == Head(history)
             rest == HistoryMessages(Tail(history))
         IN IF ~msg.isdict \/ msg.text = <<>> THEN rest
            ELSE IF msg.role = "user" THEN <<Msg("human", msg.text)>> \o rest
            ELSE IF msg.role = "assistant" THEN <<Msg("ai", msg.text)>> \o rest
            ELSE rest

BuildMessages(req) ==
    <<Msg("system", SystemPrompt(req.user_context))>>
    \o HistoryMessages(req.message_history)
    \o <<Msg("human", CurrentTurnText(req))>>

\* conversation_id or str(uuid.uuid4())
ConversationId(conversation_id) ==
    IF conversation_id.t = "null" \/ conversation_id.v = <<>>
    THEN <<"uuid4">> ELSE conversation_id.v

\* the dict process_message returns
Reply(conversation_id, text, acts) ==
    [conversation_id |-> ConversationId(conversation_id),
     assistant_text |-> text,
     actions |-> acts]

\* ------------------------------------------------------------- /chat: the answer

\* the fields ChatAction declares, each str | None
ChatActionFields == {"title", "time", "description", "id", "key", "value", "group"}

\* ChatSendResponse(**result): every action needs a string type, and a
\* declared field that is present must be a string
ValidChatAction(a) ==
    /\ "type" \in DOMAIN a
    /\ \A k \in DOMAIN a \cap (ChatActionFields \cup {"type"}) : a[k].t = "str"

ValidChatSendResponse(r) ==
    \A i \in 1..Len(r.actions) : ValidChatAction(r.actions[i])

\* ----------------------------------------------------------------- actions

\* chat() up to the first model invocation: a fresh message list is built
\* and handed to the model.
ChatRequest ==
    /\ UNCHANGED aux
    /\ pc \in {"idle", "done"}
    /\ \E req \in ChatRequests :
        /\ request' = req
        /\ message_history' = req.message_history
        /\ messages' = BuildMessages(req)
        /\ llm_log' = <<Invoked(BuildMessages(req))>>
    /\ tool_calls' = <<>>
    /\ actions' = <<>>
    /\ response_content' = <<>>
    /\ tc_index' = 1
    /\ result' = <<>>
    /\ http_status' = 0
    /\ http_body' = <<>>
    /\ tool_log' = <<>>
    /\ pc' = "llm1"

\* a plausible slip: `if actions:` where the code has `if tool_calls:`
FirstReplyDoneNoActions(reply) == ExtractActionsFromToolCalls(reply.tool_calls) = <<>>

\* whether process_message returns right after the first reply
FirstReplyDone(reply) == reply.tool_calls = <<>>

\* a plausible slip: the reply is appended to the caller's list as well
FirstReplyIntoHistory ==
    /\ UNCHANGED aux
    /\ pc = "llm1"
    /\ \E reply \in FirstReplies :
        /\ llm_log' = Append(llm_log, Replied(reply))
        /\ message_history' = Append(message_history, Turn("assistant", reply.content))
        /\ tool_calls' = reply.tool_calls
        /\ actions' = ExtractActionsFromToolCalls(reply.tool_calls)
        /\ response_content' = StripThinkingTags(reply.content)
        /\ IF FirstReplyDone(reply)
           THEN /\ pc' = "returned"
                /\ messages' = messages
                /\ result' = <<Reply(request.conversation_id,
                                     StripThinkingTags(reply.content),
                                     ExtractActionsFromToolCalls(reply.tool_calls))>>
           ELSE /\ pc' = "tools"
                /\ messages' = Append(messages, AIReply(reply))
                /\ result' = result
    /\ tc_index' = 1
    /\ UNCHANGED <<request, http_status, http_body, tool_log>>

\* The first invocation returns: actions and text are taken from the reply;
\* without tool calls process_message returns, with tool calls the reply is
\* appended to the conversation and the tool loop starts.
FirstReply ==
    /\ UNCHANGED aux
    /\ pc = "llm1"
    /\ \E reply \in FirstReplies :
        /\ llm_log' = Append(llm_log, Replied(reply))
        /\ tool_calls' = reply.tool_calls
        /\ actions' = ExtractActionsFromToolCalls(reply.tool_calls)
        /\ response_content' = StripThinkingTags(reply.content)
        /\ IF FirstReplyDone(reply)
           THEN /\ pc' = "returned"
                /\ messages' = messages
                /\ result' = <<Reply(request.conversation_id,
                                     StripThinkingTags(reply.content),
                                     ExtractActionsFromToolCalls(reply.tool_calls))>>
           ELSE /\ pc' = "tools"
                /\ messages' = Append(messages, AIReply(reply))
                /\ result' = result
    /\ tc_index' = 1
    /\ UNCHANGED <<request, message_history, http_status, http_body, tool_log>>

\* a plausible slip: no try/except around the tool, its exception escapes
ExecuteToolStepUncaught ==
    /\ UNCHANGED aux
    /\ pc = "tools"
    /\ tc_index <= Len(tool_calls)
    /\ LET tc == tool_calls[tc_index]
       IN \E out \in ExecuteTool(tc.name, tc.args) :
            /\ tool_log' = Append(tool_log, [index |-> tc_index, name |-> tc.name,
                                             ran |-> out.ran, caught |-> out.caught])
            /\ IF out.caught
               THEN /\ pc' = "raised"
                    /\ UNCHANGED <<messages, tc_index>>
               ELSE /\ pc' = pc
                    /\ messages' = Append(messages, ToolMessage(out.content, tc.id))
                    /\ tc_index' = tc_index + 1
    /\ UNCHANGED <<request, message_history, tool_calls, actions, response_content,
                   result, http_status, http_body, llm_log>>

\* a plausible slip: running the tool records its action once more
ExecuteToolStepRecording ==
    /\ UNCHANGED aux
    /\ pc = "tools"
    /\ tc_index <= Len(tool_calls)
    /\ LET tc == tool_calls[tc_index]
       IN \E out \in ExecuteTool(tc.name, tc.args) :
            /\ messages' = Append(messages, ToolMessage(out.content, tc.id))
            /\ actions' = IF out.ran THEN Append(actions, ActionOfToolCall(tc)) ELSE actions
            /\ tool_log' = Append(tool_log, [index |-> tc_index, name |-> tc.name,
                                             ran |-> out.ran, caught |-> out.caught])
    /\ tc_index' = tc_index + 1
    /\ UNCHANGED <<pc, request, message_history, tool_calls, response_content,
                   result, http_status, http_body, llm_log>>

\* a plausible slip: a call whose execution fails loses an action
ExecuteToolStepDropFailed ==
    /\ UNCHANGED aux
    /\ pc = "tools"
    /\ tc_index <= Len(tool_calls)
    /\ LET tc == tool_calls[tc_index]
       IN \E out \in ExecuteTool(tc.name, tc.args) :
            /\ messages' = Append(messages, ToolMessage(out.content, tc.id))
            /\ actions' = IF out.caught THEN SubSeq(actions, 1, Len(actions) - 1) ELSE actions
            /\ tool_log' = Append(tool_log, [index |-> tc_index, name |-> tc.name,
                                             ran |-> out.ran, caught |-> out.caught])
    /\ tc_index' = tc_index + 1
    /\ UNCHANGED <<pc, request, message_history, tool_calls, response_content,
                   result, http_status, http_body, llm_log>>

\* One round of the tool loop: the call is executed and its result appended
\* to the conversation as a tool message carrying the call's id.
ExecuteToolStep ==
    /\ UNCHANGED aux
    /\ pc = "tools"
    /\ tc_index <= Len(tool_calls)
    /\ LET tc == tool_calls[tc_index]
       IN \E out \in ExecuteTool(tc.name, tc.args) :
            /\ messages' = Append(messages, ToolMessage(out.content, tc.id))
            /\ tool_log' = Append(tool_log, [index |-> tc_index, name |-> tc.name,
                                             ran |-> out.ran, caught |-> out.caught])
    /\ tc_index' = tc_index + 1
    /\ UNCHANGED <<pc, request, message_history, tool_calls, actions, response_content,
                   result, http_status, http_body, llm_log>>

\* The loop is over: the model is invoked again with the conversation.
SecondInvocation ==
    /\ UNCHANGED aux
    /\ pc = "tools"
    /\ tc_index > Len(tool_calls)
    /\ pc' = "llm2"
    /\ llm_log' = Append(llm_log, Invoked(messages))
    /\ UNCHANGED <<request, message_history, messages, tool_calls, actions,
                   response_content, tc_index, result, http_status, http_body, tool_log>>

\* a plausible slip: the final reply's tool calls are added to the actions
FinalActionsMerged(acts, reply) == acts \o ExtractActionsFromToolCalls(reply.tool_calls)

\* the actions returned after the tool loop
FinalActions(acts, reply) == acts

\* a plausible slip: the first reply's text is not replaced
FinalTextKept(text, reply) == text

\* the text returned after the tool loop
FinalText(text, reply) == StripThinkingTags(reply.content)

\* The second invocation returns: only its text is used.
FinalReply ==
    /\ UNCHANGED aux
    /\ pc = "llm2"
    /\ \E reply \in FinalReplies :
        /\ llm_log' = Append(llm_log, Replied(reply))
        /\ response_content' = FinalText(response_content, reply)
        /\ result' = <<Reply(request.conversation_id,
                             FinalText(response_content, reply),
                             FinalActions(actions, reply))>>
    /\ pc' = "returned"
    /\ UNCHANGED <<request, message_history, messages, tool_calls, actions, tc_index,
                   http_status, http_body, tool_log>>

\* a plausible slip: a failed invocation is answered with what is there
ModelInvocationFailsPartial ==
    /\ UNCHANGED aux
    /\ pc \in {"llm1", "llm2"}
    /\ llm_log' = Append(llm_log, Failed)
    /\ pc' = "returned"
    /\ result' = <<Reply(request.conversation_id, response_content, actions)>>
    /\ UNCHANGED <<request, message_history, messages, tool_calls, actions,
                   response_content, tc_index, http_status, http_body, tool_log>>

\* a plausible slip: a failed invocation is tried again
ModelInvocationFailsRetry ==
    /\ UNCHANGED aux
    /\ pc \in {"llm1", "llm2"}
    /\ llm_log' = llm_log \o <<Failed, Invoked(messages)>>
    /\ UNCHANGED <<pc, request, message_history, messages, tool_calls, actions,
                   response_content, tc_index, result, http_status, http_body, tool_log>>

\* _call_llm raises: the exception leaves process_message.
ModelInvocationFails ==
    /\ UNCHANGED aux
    /\ pc \in {"llm1", "llm2"}
    /\ llm_log' = Append(llm_log, Failed)
    /\ pc' = "raised"
    /\ UNCHANGED <<request, message_history, messages, tool_calls, actions,
                   response_content, tc_index, result, http_status, http_body, tool_log>>

\* chat() wraps the returned dict in a ChatSendResponse; a dict it does not
\* accept raises inside the try block and is answered with 500.
ChatRespond ==
    /\ UNCHANGED aux
    /\ pc = "returned"
    /\ IF ValidChatSendResponse(result[1])
       THEN http_status' = 200 /\ http_body' = result
       ELSE http_status' = 500 /\ http_body' = <<>>
    /\ pc' = "done"
    /\ UNCHANGED <<request, message_history, messages, tool_calls, actions,
                   response_content, tc_index, result, llm_log, tool_log>>

\* chat() catches what process_message raised and answers 500.
ChatError ==
    /\ UNCHANGED aux
    /\ pc = "raised"
    /\ http_status' = 500
    /\ http_body' = <<>>
    /\ pc' = "done"
    /\ UNCHANGED <<request, message_history, messages, tool_calls, actions,
                   response_content, tc_index, result, llm_log, tool_log>>

Next ==
    \/ ChatRequest
    \/ FirstReply
    \/ ExecuteToolStep
    \/ SecondInvocation
    \/ FinalReply
    \/ ModelInvocationFails
    \/ ChatRespond
    \/ ChatError

Spec == Init /\ [][Next]_vars

\* ------------------------------------------------------- reading the logs

\* the model invocations of the request so far
LLMInvocations == Cardinality({i \in 1..Len(llm_log) : llm_log[i].ev = "invoke"})

HasFirstReply == Len(llm_log) >= 2 /\ llm_log[2].ev = "reply"
HasFinalReply == Len(llm_log) >= 4 /\ llm_log[4].ev = "reply"
FirstModelReply == llm_log[2].reply
FinalModelReply == llm_log[4].reply

\* process_message has returned
Returned == pc \in {"returned", "done"} /\ result # <<>>

Registered(calls) == {i \in 1..Len(calls) : calls[i].name \in AGENT_TOOLS}

\* the position of the j-th call with a registered name
NthRegistered(calls, j) ==
    CHOOSE i \in Registered(calls) : Cardinality({k \in Registered(calls) : k <= i}) = j

\* action a carries what call tc asked for
ComesFrom(a, tc) ==
    \A k \in DOMAIN tc.args :
        tc.args[k].t # "null" => k \in DOMAIN a /\ (k # "time" => a[k] = tc.args[k])

\* the tool messages behind the first reply in a message list
ToolMessagesOf(msgs) == SelectSeq(msgs, LAMBDA m : m.role = "tool")

\* ------------------------------------------------------------------ claims

\* C1: when the first reply carries tool calls (any number, registered or
\* not), the model is invoked exactly twice by the time process_message ends,
\* and the returned actions follow the order of the calls: the j-th action
\* comes from the j-th call with a registered name.
C1_TwoInvocationsOrderKept ==
    (pc \in {"returned", "raised", "done"} /\ HasFirstReply
        /\ FirstModelReply.tool_calls # <<>>)
    => /\ LLMInvocations = 2
       /\ Returned =>
            /\ Len(result[1].actions) = Cardinality(Registered(FirstModelReply.tool_calls))
            /\ \A j \in 1..Len(result[1].actions) :
                 ComesFrom(result[1].actions[j],
                           FirstModelReply.tool_calls[
                               NthRegistered(FirstModelReply.tool_calls, j)])

C1_Witness ==
    /\ pc = "done" /\ http_status = 200
    /\ HasFinalReply
    /\ Len(FirstModelReply.tool_calls) = 3
    /\ LLMInvocations = 2
    /\ Len(result[1].actions) = 3
    /\ result[1].actions[1] # result[1].actions[2]

\* C2: when the first reply carries no tool call, process_message returns
\* after one model invocation, no tool was executed, the text is the cleaned
\* text of that reply (plain prose verbatim, a reasoning span removed) and
\* the action list is empty.
C2_NoToolCallsOneInvocation ==
    (HasFirstReply /\ FirstModelReply.tool_calls = <<>>)
    => /\ Returned
       /\ LLMInvocations = 1
       /\ tool_log = <<>>
       /\ result[1].actions = <<>>
       /\ result[1].assistant_text = StripThinkingTags(FirstModelReply.content)
       /\ FirstModelReply.content = PlainText => result[1].assistant_text = PlainText
       /\ FirstModelReply.content = ThinkText => result[1].assistant_text = <<"Y">>

C2_Witness ==
    /\ pc = "done" /\ http_status = 200
    /\ HasFirstReply /\ FirstModelReply.tool_calls = <<>>
    /\ FirstModelReply.content = PlainText
    /\ http_body[1].assistant_text = PlainText
    /\ http_body[1].actions = <<>>

\* C3: a request makes at most two model invocations; each starts only after
\* the one before has returned, the second only after the first reply and one
\* tool result per tool call of it have been appended to the conversation;
\* nothing follows a failed invocation.
C3_AtMostTwoSequentialNoRetry ==
    /\ LLMInvocations <= 2
    /\ \A i \in 1..Len(llm_log) :
         /\ (i % 2 = 1) => llm_log[i].ev = "invoke"
         /\ (i % 2 = 0) => llm_log[i].ev \in {"reply", "fail"}
         /\ llm_log[i].ev = "fail" => i = Len(llm_log)
    /\ Len(llm_log) >= 3 =>
         /\ llm_log[2].ev = "reply"
         /\ LET before == llm_log[1].msgs
                after == llm_log[3].msgs
                calls == llm_log[2].reply.tool_calls
            IN /\ Len(after) = Len(before) + 1 + Len(calls)
               /\ SubSeq(after, 1, Len(before)) = before
               /\ after[Len(before) + 1] = AIReply(llm_log[2].reply)
               /\ \A k \in 1..Len(calls) :
                    /\ after[Len(before) + 1 + k].role = "tool"
                    /\ after[Len(before) + 1 + k].tool_call_id = calls[k].id

C3_Witness ==
    /\ pc = "done"
    /\ Len(llm_log) = 4
    /\ Len(llm_log[2].reply.tool_calls) = 3
    /\ Len(ToolMessagesOf(llm_log[3].msgs)) = 3

\* C4: every action process_message returns has the name of a registered
\* tool as its type.
C4_ActionKindRegistered ==
    Returned =>
        \A i \in 1..Len(result[1].actions) :
            result[1].actions[i]["type"] \in {Str(<<n>>) : n \in AGENT_TOOLS}

\* C5: a tool call with an unregistered name yields no action, runs no tool
\* body and raises nothing; the calls with registered names of the same reply
\* are still converted to actions.
C5_HallucinatedToolSkipped ==
    /\ HasFirstReply =>
         /\ Len(actions) = Cardinality(Registered(FirstModelReply.tool_calls))
         /\ \A i \in Registered(FirstModelReply.tool_calls) :
              \E j \in 1..Len(actions) : ComesFrom(actions[j], FirstModelReply.tool_calls[i])
    /\ \A i \in 1..Len(tool_log) :
         tool_log[i].name \notin AGENT_TOOLS => ~tool_log[i].ran /\ ~tool_log[i].caught
    /\ pc = "raised" => llm_log[Len(llm_log)].ev = "fail"

C5_Witness ==
    /\ pc = "done" /\ http_status = 200
    /\ Len(tool_calls) = 3
    /\ tool_calls[1].name = "delete_everything"
    /\ tool_calls[2].name = ProfileTool
    /\ tool_calls[3].name = "delete_everything"
    /\ Len(tool_log) = 3
    /\ Len(http_body[1].actions) = 1

\* C6: every action process_message returns has the required fields of its
\* kind: title for upsert_routine_item, key and value for
\* upsert_profile_field.
C6_RequiredFieldsPresent ==
    Returned =>
        \A i \in 1..Len(result[1].actions) :
            LET a == result[1].actions[i]
            IN /\ a["type"] = Str(<<RoutineTool>>) => "title" \in DOMAIN a
               /\ a["type"] = Str(<<ProfileTool>>) => {"key", "value"} \subseteq DOMAIN a

\* C7: tool calls of the second reply are ignored: none is executed, none
\* becomes an action, no third invocation follows; the returned actions are
\* those collected from the first reply and the text is the second reply's.
C7_FinalToolCallsIgnored ==
    (pc \in {"returned", "done"} /\ HasFinalReply)
    => /\ Returned
       /\ LLMInvocations = 2
       /\ Len(tool_log) = Len(FirstModelReply.tool_calls)
       /\ \A i \in 1..Len(tool_log) : tool_log[i].name = FirstModelReply.tool_calls[i].name
       /\ result[1].actions = actions
       /\ Len(result[1].actions) = Cardinality(Registered(FirstModelReply.tool_calls))
       /\ result[1].assistant_text = StripThinkingTags(FinalModelReply.content)

C7_Witness ==
    /\ pc = "done" /\ http_status = 200
    /\ HasFinalReply
    /\ Len(FinalModelReply.tool_calls) = 1
    /\ FinalModelReply.tool_calls[1].name = ProfileTool
    /\ Len(FirstModelReply.tool_calls) = 1
    /\ Len(http_body[1].actions) = 1

\* C8: when the first reply carries tool calls, the returned text is the
\* cleaned text of the second reply, the first reply's text is no part of
\* it, and the returned actions are those of the first reply's tool calls.
C8_FinalTextFirstActions ==
    (Returned /\ HasFirstReply /\ FirstModelReply.tool_calls # <<>>)
    => /\ HasFinalReply
       /\ result[1].assistant_text = StripThinkingTags(FinalModelReply.content)
       /\ FinalModelReply.content = <<"Done.">> => result[1].assistant_text = <<"Done.">>
       /\ FinalModelReply.content # <<"Done.">> => result[1].assistant_text = <<"O", "K">>
       /\ result[1].actions = ExtractActionsFromToolCalls(FirstModelReply.tool_calls)

C8_Witness ==
    /\ pc = "done" /\ http_status = 200
    /\ HasFinalReply
    /\ FirstModelReply.tool_calls # <<>>
    /\ FirstModelReply.content = PlainText
    /\ http_body[1].assistant_text = <<"O", "K">>
    /\ http_body[1].actions # <<>>

\* C9: an exception raised while a tool is executed is caught and becomes
\* that call's tool result (an error message); the later calls are executed
\* all the same, every call gets its own tool message, the second invocation
\* is made and process_message raises only when a model invocation failed.
C9_ToolFailureCaught ==
    /\ pc = "raised" => llm_log[Len(llm_log)].ev = "fail"
    /\ Len(ToolMessagesOf(messages)) = Len(tool_log)
    /\ \A i \in 1..Len(tool_log) :
         /\ tool_log[i].index = i
         /\ tool_log[i].caught =>
              LET m == ToolMessagesOf(messages)[i]
              IN /\ m.tool_call_id = tool_calls[i].id
                 /\ m.content[1] = "Error executing "
    /\ Len(llm_log) >= 3 =>
         /\ Len(tool_log) = Len(tool_calls)
         /\ Len(ToolMessagesOf(llm_log[3].msgs)) = Len(tool_calls)
    /\ (HasFirstReply /\ tool_calls # <<>> /\ pc \in {"returned", "raised", "done"})
         => Len(llm_log) = 4
    /\ HasFinalReply => Returned

C9_Witness ==
    /\ pc = "done" /\ http_status = 200
    /\ Len(tool_log) = 3
    /\ tool_log[1].caught
    /\ tool_log[2].ran
    /\ tool_log[3].caught

\* C10: a failed model invocation ends the request without a reply: after a
\* failed first invocation no tool was executed and no second invocation
\* made; after a failed second invocation the collected actions are not
\* returned; /chat answers 500 and no ChatSendResponse.
C10_ModelFailureFatal ==
    (llm_log # <<>> /\ llm_log[Len(llm_log)].ev = "fail")
    => /\ result = <<>>
       /\ pc \in {"raised", "done"}
       /\ pc = "done" => http_status = 500 /\ http_body = <<>>
       /\ http_status # 200
       /\ Len(llm_log) = 2 => tool_log = <<>> /\ LLMInvocations = 1 /\ tool_calls = <<>>

C10_Witness ==
    /\ pc = "done" /\ http_status = 500
    /\ Len(llm_log) = 4
    /\ llm_log[4].ev = "fail"
    /\ actions # <<>>
    /\ result = <<>>

\* C11: from the first reply on, the conversation is what the first
\* invocation was given, then the tool-call-bearing reply, then one tool
\* message per executed call, in the order of the calls, each with the id of
\* its own call and a result of that call; the second invocation is given
\* this conversation with a tool message for every call.
C11_ConversationExtendedInOrder ==
    (HasFirstReply /\ FirstModelReply.tool_calls # <<>>)
    => LET before == llm_log[1].msgs
           calls == FirstModelReply.tool_calls
           done == Len(messages) - Len(before) - 1
       IN /\ done \in 0..Len(calls)
          /\ SubSeq(messages, 1, Len(before)) = before
          /\ messages[Len(before) + 1] = AIReply(FirstModelReply)
          /\ \A k \in 1..done :
               LET m == messages[Len(before) + 1 + k]
               IN /\ m.role = "tool"
                  /\ m.tool_call_id = calls[k].id
                  /\ m.content \in {o.content : o \in ExecuteTool(calls[k].name, calls[k].args)}
          /\ Len(llm_log) >= 3 => done = Len(calls) /\ llm_log[3].msgs = messages

C11_Witness ==
    /\ pc = "llm2"
    /\ Len(FirstModelReply.tool_calls) = 3
    /\ Len(messages) = Len(llm_log[1].msgs) + 4
    /\ Len(llm_log[1].msgs) = 4
    /\ messages[6].tool_call_id = 1
    /\ messages[8].tool_call_id = 3
    /\ messages[6].content # messages[8].content

\* ------------------------------------------------- normalization on its own

\* the most fragments a text is put together from
MaxFrags == 5

\* the pieces of the texts: the two markers, a letter, a blank, and the two
\* halves of an opening marker
TextFragments ==
    {OpenTag, CloseTag, <<"X">>, <<" ">>, <<"<", "t", "h">>, <<"i", "n", "k", ">">>}

RECURSIVE Concat(_)
Concat(parts) == IF parts = <<>> THEN <<>> ELSE Head(parts) \o Concat(Tail(parts))

NormTexts == {Concat(q) : q \in SeqsUpTo(TextFragments, MaxFrags)}

NormInit ==
    /\ ChatInit
    /\ aux \in {[phase |-> "raw", text |-> t, once |-> <<>>, twice |-> <<>>] : t \in NormTexts}

\* a model reply is normalized
NormalizeOnce ==
    /\ aux.phase = "raw"
    /\ aux' = [aux EXCEPT !.phase = "once", !.once = StripThinkingTags(aux.text)]
    /\ UNCHANGED chatVars

\* the normalized text is normalized again
NormalizeAgain ==
    /\ aux.phase = "once"
    /\ aux' = [aux EXCEPT !.phase = "twice", !.twice = StripThinkingTags(aux.once)]
    /\ UNCHANGED chatVars

NormNext == NormalizeOnce \/ NormalizeAgain

SpecNormalize == NormInit /\ [][NormNext]_vars

\* C12: normalizing a normalized text returns it unchanged.
C12_NormalizeIdempotent ==
    aux.phase = "twice" => aux.twice = aux.once

\* the last position of the span opening at p, 0 when none opens there
SpanEndAt(s, p) ==
    IF StartsWithAt(s, p, OpenTag) /\ FindFrom(s, p + Len(OpenTag), CloseTag) # 0
    THEN FindFrom(s, p + Len(OpenTag), CloseTag) + Len(CloseTag) - 1
    ELSE 0

\* the positions of s inside a span, read from position i on
RECURSIVE InSpans(_, _)
InSpans(s, i) ==
    IF i > Len(s) THEN {}
    ELSE IF SpanEndAt(s, i) # 0
         THEN (i..SpanEndAt(s, i)) \cup InSpans(s, SpanEndAt(s, i) + 1)
         ELSE InSpans(s, i + 1)

\* s without the positions in drop, the rest in its order
RECURSIVE Without(_, _, _)
Without(s, drop, i) ==
    IF i > Len(s) THEN <<>>
    ELSE (IF i \in drop THEN <<>> ELSE <<s[i]>>) \o Without(s, drop, i + 1)

\* C13: every span from an opening marker to the nearest closing marker
\* behind it is removed and the rest keeps its order, then whitespace is
\* trimmed: "<think>X</think>X" gives "X", the first of two spans ends at
\* the first closing marker, and a text without a closing marker behind an
\* opening one comes back trimmed and otherwise unchanged.
C13_SpansRemovedNonGreedy ==
    aux.phase \in {"once", "twice"} =>
        /\ aux.once = PyStrip(Without(aux.text, InSpans(aux.text, 1), 1))
        /\ aux.text = OpenTag \o <<"X">> \o CloseTag \o <<"X">> => aux.once = <<"X">>
        /\ aux.text = OpenTag \o CloseTag \o <<"X">> \o OpenTag \o CloseTag => aux.once = <<"X">>
        /\ (\A p \in 1..Len(aux.text) : SpanEndAt(aux.text, p) = 0)
              => aux.once = PyStrip(aux.text)
        /\ aux.text = <<" ">> \o OpenTag \o <<"X">> => aux.once = OpenTag \o <<"X">>

C13_Witness ==
    /\ aux.phase = "once"
    /\ aux.text = OpenTag \o <<"X">> \o CloseTag \o <<"X">> \o CloseTag
    /\ aux.once = <<"X">> \o CloseTag

\* ------------------------------------------------ the time sanitizer on its own

\* the longest time string that is enumerated
MaxTimeLen == 6

TimeAlphabet == {"1", "7", ":", "a"}

\* "at around <tag>14:30</tag> maybe"
NoisyTime ==
    <<"a", "t", " ", "a", "r", "o", "u", "n", "d", " ", "<", "t", "a", "g", ">",
      "1", "4", ":", "3", "0", "<", "/", "t", "a", "g", ">", " ", "m", "a", "y", "b", "e">>

\* two patterns in one string
TwoTimes == <<"x", "9", ":", "1", "5", " ", "1", "8", ":", "4", "5">>

TimeValues ==
    {Str(t) : t \in SeqsUpTo(TimeAlphabet, MaxTimeLen) \cup {NoisyTime, TwoTimes}}
    \cup {Null, Num(<<"9">>), Num(<<"1", "7", ":", "1", "1">>)}

\* the tool calls whose time argument is looked at
SanitizeCalls ==
    {[name |-> RoutineTool, id |-> 1,
      args |-> ("title" :> Str(<<"Nap">>)) @@ ("time" :> v)
               @@ ("description" :> Str(<<"a", "1", "7", ":", "1", "1", "a">>))
               @@ ("id" :> Null)] : v \in TimeValues}

SanitizeInit ==
    /\ ChatInit
    /\ aux \in {[phase |-> "call", call |-> c, acts |-> <<>>] : c \in SanitizeCalls}

\* the tool call of a reply is converted
ExtractOne ==
    /\ aux.phase = "call"
    /\ aux' = [aux EXCEPT !.phase = "action",
                          !.acts = ExtractActionsFromToolCalls(<<aux.call>>)]
    /\ UNCHANGED chatVars

SanitizeNext == ExtractOne

SpecSanitize == SanitizeInit /\ [][SanitizeNext]_vars

\* w is one or two digits, a colon, two digits
IsHHMM(w) ==
    \/ /\ Len(w) = 4
       /\ w[1] \in Digits /\ w[2] = ":" /\ w[3] \in Digits /\ w[4] \in Digits
    \/ /\ Len(w) = 5
       /\ w[1] \in Digits /\ w[2] \in Digits /\ w[3] = ":"
       /\ w[4] \in Digits /\ w[5] \in Digits

\* the places (from, to) of s that hold an HH:MM pattern
HHMMPlaces(s) ==
    {pl \in (1..Len(s)) \X (1..Len(s)) : pl[1] <= pl[2] /\ IsHHMM(SubSeq(s, pl[1], pl[2]))}

\* C14: when a string time argument holds an HH:MM pattern, the action's
\* time is exactly a matched substring of it ("at around <tag>14:30</tag>
\* maybe" gives "14:30"); a string time without a pattern is passed on as it
\* came.
C14_TimeSanitized ==
    (aux.phase = "action" /\ aux.call.args["time"].t = "str")
    => LET given == aux.call.args["time"].v
           got == aux.acts[1]["time"]
       IN /\ Len(aux.acts) = 1
          /\ got.t = "str"
          /\ HHMMPlaces(given) # {}
               => \E pl \in HHMMPlaces(given) : got.v = SubSeq(given, pl[1], pl[2])
          /\ HHMMPlaces(given) = {} => got.v = given
          /\ given = NoisyTime => got.v = <<"1", "4", ":", "3", "0">>

C14_Witness ==
    /\ aux.phase = "action"
    /\ aux.call.args["time"] = Str(NoisyTime)
    /\ aux.acts[1]["time"] = Str(<<"1", "4", ":", "3", "0">>)

\* C15: every upsert_routine_item action process_message returns that has a
\* time carries it as a string of one or two digits, a colon and two digits.
C15_ReturnedTimeIsHHMM ==
    Returned =>
        \A i \in 1..Len(result[1].actions) :
            LET a == result[1].actions[i]
            IN (a["type"] = Str(<<RoutineTool>>) /\ "time" \in DOMAIN a)
                 => a["time"].t = "str" /\ IsHHMM(a["time"].v)

\* C16: no field of a returned action is null: an action has the key type
\* and exactly the keys of the non-null arguments of its call, with the
\* values of those arguments (the time as sanitized), and the tool name as
\* type unless an argument is named type.
C16_NullsOmitted ==
    Returned =>
        /\ Len(result[1].actions) = Cardinality(Registered(FirstModelReply.tool_calls))
        /\ \A j \in 1..Len(result[1].actions) :
             LET a == result[1].actions[j]
                 tc == FirstModelReply.tool_calls[NthRegistered(FirstModelReply.tool_calls, j)]
                 given == {k \in DOMAIN tc.args : tc.args[k].t # "null"}
             IN /\ \A k \in DOMAIN a : a[k].t # "null"
                /\ DOMAIN a = {"type"} \cup given
                /\ \A k \in given \ {"time"} : a[k] = tc.args[k]
                /\ "type" \notin given => a["type"] = Str(<<tc.name>>)

C16_Witness ==
    /\ pc = "done" /\ http_status = 200
    /\ Len(FirstModelReply.tool_calls) = 2
    /\ FirstModelReply.tool_calls[1].args = (("title" :> Null) @@ ("time" :> Str(<<"n", "o", "o", "n">>)))
    /\ "id" \in DOMAIN FirstModelReply.tool_calls[2].args
    /\ DOMAIN http_body[1].actions[1] = {"type", "time"}
    /\ DOMAIN http_body[1].actions[2] = {"type", "title", "time"}

\* --------------------------------------------- the conversation on its own

\* the longest history that is enumerated
MaxHist == 3

\* what an entry of the caller's history may be
HistoryEntries ==
    {NotADict, Turn("user", <<>>), Turn("user", <<"q1">>), Turn("user", <<"q2">>),
     Turn("assistant", <<"a">>), Turn("system", <<"s">>)}

AssembleRequests ==
    {[text |-> <<"hi">>, conversation_id |-> Null, image |-> im.image, vlm |-> im.vlm,
      user_context |-> Null, message_history |-> h] :
        im \in {[image |-> FALSE, vlm |-> "ok"], [image |-> TRUE, vlm |-> "ok"],
                [image |-> TRUE, vlm |-> "fail"]},
        h \in SeqsUpTo(HistoryEntries, MaxHist)}

AssembleInit ==
    /\ ChatInit
    /\ aux \in {[phase |-> "request", req |-> r, msgs |-> <<>>] : r \in AssembleRequests}

\* process_message builds the messages of the first invocation
Assemble ==
    /\ aux.phase = "request"
    /\ aux' = [aux EXCEPT !.phase = "built", !.msgs = BuildMessages(aux.req)]
    /\ UNCHANGED chatVars

AssembleNext == Assemble

SpecAssemble == AssembleInit /\ [][AssembleNext]_vars

\* the j-th smallest number of S
NthOf(S, j) == CHOOSE i \in S : Cardinality({k \in S : k <= i}) = j

\* the history entries that are mappings with a text and a role of the dialogue
KeptEntries(history) ==
    {i \in 1..Len(history) :
        /\ history[i].isdict
        /\ history[i].text # <<>>
        /\ history[i].role \in {"user", "assistant"}}

\* C17: the first invocation is given one system message first, then one
\* message per history entry that is a mapping with a non-empty text and the
\* role user (a human message) or assistant (an assistant message), in the
\* caller's order, then the current turn as the one last message.
C17_MessageSequence ==
    aux.phase = "built" =>
        LET h == aux.req.message_history
            kept == KeptEntries(h)
            n == Len(aux.msgs)
        IN /\ n = Cardinality(kept) + 2
           /\ aux.msgs[1].role = "system"
           /\ aux.msgs[1].content[1] = "SYSTEM_PROMPT"
           /\ aux.msgs[n].role = "human"
           /\ SubSeq(aux.msgs[n].content, 1, Len(aux.req.text)) = aux.req.text
           /\ ~aux.req.image => aux.msgs[n].content = aux.req.text
           /\ \A i \in 2..n : aux.msgs[i].role # "system"
           /\ \A j \in 1..Cardinality(kept) :
                LET entry == h[NthOf(kept, j)]
                IN /\ aux.msgs[1 + j].content = entry.text
                   /\ aux.msgs[1 + j].role = IF entry.role = "user" THEN "human" ELSE "ai"

C17_Witness ==
    /\ aux.phase = "built"
    /\ aux.req.message_history = <<Turn("user", <<"q1">>), NotADict, Turn("assistant", <<"a">>)>>
    /\ Len(aux.msgs) = 4
    /\ aux.msgs[2] = Msg("human", <<"q1">>)
    /\ aux.msgs[3] = Msg("ai", <<"a">>)

\* C18: the caller's history is never changed: while the request is served
\* and after it has returned or raised, with or without a tool loop,
\* message_history has the entries the caller passed, in the same order; what
\* the request appends goes to its own message list.
C18_HistoryNotMutated ==
    pc # "idle" =>
        /\ message_history = request.message_history
        /\ pc \in {"tools", "llm2"} =>
             Len(messages) = Len(BuildMessages(request)) + 1 + Len(tool_log)

C18_Witness ==
    /\ pc = "returned"
    /\ tool_log # <<>>
    /\ Len(request.message_history) = 5
    /\ message_history = request.message_history
    /\ Len(messages) > Len(BuildMessages(request))

\* C20: executing a tool changes nothing but the conversation: the step that
\* runs a tool leaves the action list, the tool calls, the request, the
\* caller's history, the text and the result as they were, and adds exactly
\* one tool message that carries a string and no tool calls.
C20_ToolExecutionPure ==
    [][(pc = "tools" /\ tool_log' # tool_log) =>
          /\ actions' = actions
          /\ tool_calls' = tool_calls
          /\ request' = request
          /\ message_history' = message_history
          /\ response_content' = response_content
          /\ result' = result
          /\ llm_log' = llm_log
          /\ Len(messages') = Len(messages) + 1
          /\ SubSeq(messages', 1, Len(messages)) = messages
          /\ messages'[Len(messages')].role = "tool"
          /\ messages'[Len(messages')].tool_calls = <<>>]_vars

C20_Witness ==
    /\ pc = "llm2"
    /\ Len(tool_log) = 2
    /\ \A i \in 1..2 : tool_log[i].ran
    /\ Len(actions) = 2
    /\ actions = ExtractActionsFromToolCalls(tool_calls)

\* ------------------------------------------- two requests on the same agent

\* the most tool calls a first reply carries when two requests interleave
MaxTwoCalls == 2

TwoCallPool ==
    { [name |-> RoutineTool,
       args |-> ("title" :> Str(<<"Nap">>))
                @@ ("time" :> Str(<<"a", "t", " ", "1", "4", ":", "3", "0", "?">>))],
      [name |-> RoutineTool,
       args |-> ("title" :> Str(<<"Gym">>)) @@ ("time" :> Num(<<"9">>))] }

TwoRequests ==
    { [text |-> <<"hi">>, conversation_id |-> Null, image |-> FALSE, vlm |-> "ok",
       user_context |-> Null, message_history |-> <<>>],
      [text |-> <<"plan">>, conversation_id |-> Str(<<"c1">>), image |-> TRUE, vlm |-> "ok",
       user_context |-> Str(<<"ctx">>),
       message_history |-> <<Turn("user", <<"q">>), Turn("assistant", <<"a">>)>>] }

TwoFirstReplies ==
    {[content |-> ThinkText, tool_calls |-> WithIds(q)] :
        q \in SeqsUpTo(TwoCallPool, MaxTwoCalls)}

TwoFinalReplies == {[content |-> c, tool_calls |-> <<>>] : c \in FinalTexts}

\* the local variables of one process_message call; replies is what the
\* model has answered to this call so far
NoFrame ==
    [pc |-> "idle", req |-> NoRequest, messages |-> <<>>, tool_calls |-> <<>>,
     actions |-> <<>>, response_content |-> <<>>, result |-> <<>>, replies |-> <<>>]

TwoInit ==
    /\ ChatInit
    /\ aux = [phase |-> "two", frames |-> <<NoFrame, NoFrame>>]

\* the tool messages the loop over the calls may append
RECURSIVE ToolLoop(_)
ToolLoop(calls) ==
    IF calls = <<>> THEN {<<>>}
    ELSE {<<ToolMessage(out.content, Head(calls).id)>> \o rest :
            out \in ExecuteTool(Head(calls).name, Head(calls).args),
            rest \in ToolLoop(Tail(calls))}

\* a plausible slip: the action list is kept on the agent and shared
FrameActionsShared(frames, i, calls) ==
    frames[3 - i].actions \o ExtractActionsFromToolCalls(calls)

\* the action list of call i: a local of that call
FrameActions(frames, i, calls) == ExtractActionsFromToolCalls(calls)

\* call i starts and runs up to its first await
TwoStart(i) ==
    /\ aux.frames[i].pc \in {"idle", "returned", "raised"}
    /\ \E req \in TwoRequests :
         aux' = [aux EXCEPT !.frames[i] =
                    [NoFrame EXCEPT !.pc = "llm1", !.req = req,
                                    !.messages = BuildMessages(req)]]
    /\ UNCHANGED chatVars

\* call i resumes with the first reply and runs to its return or to the
\* second await
TwoFirstReply(i) ==
    /\ aux.frames[i].pc = "llm1"
    /\ \E reply \in TwoFirstReplies :
        \E tms \in ToolLoop(reply.tool_calls) :
          LET f == aux.frames[i]
              acts == FrameActions(aux.frames, i, reply.tool_calls)
              text == StripThinkingTags(reply.content)
          IN aux' = [aux EXCEPT !.frames[i] =
                IF FirstReplyDone(reply)
                THEN [f EXCEPT !.pc = "returned", !.tool_calls = reply.tool_calls,
                               !.actions = acts, !.response_content = text,
                               !.replies = <<reply>>,
                               !.result = <<Reply(f.req.conversation_id, text, acts)>>]
                ELSE [f EXCEPT !.pc = "llm2", !.tool_calls = reply.tool_calls,
                               !.actions = acts, !.response_content = text,
                               !.replies = <<reply>>,
                               !.messages = Append(f.messages, AIReply(reply)) \o tms]]
    /\ UNCHANGED chatVars

\* call i resumes with the second reply and returns
TwoFinalReply(i) ==
    /\ aux.frames[i].pc = "llm2"
    /\ \E reply \in TwoFinalReplies :
          LET f == aux.frames[i]
          IN aux' = [aux EXCEPT !.frames[i] =
                [f EXCEPT !.pc = "returned",
                          !.response_content = FinalText(f.response_content, reply),
                          !.replies = Append(f.replies, reply),
                          !.result = <<Reply(f.req.conversation_id,
                                             FinalText(f.response_content, reply),
                                             FinalActions(f.actions, reply))>>]]
    /\ UNCHANGED chatVars

\* the invocation call i waits for fails: the call raises
TwoFail(i) ==
    /\ aux.frames[i].pc \in {"llm1", "llm2"}
    /\ aux' = [aux EXCEPT !.frames[i].pc = "raised"]
    /\ UNCHANGED chatVars

TwoNext ==
    \E i \in 1..2 :
        \/ TwoStart(i)
        \/ TwoFirstReply(i)
        \/ TwoFinalReply(i)
        \/ TwoFail(i)

SpecTwo == TwoInit /\ [][TwoNext]_vars

\* what a call returns when it runs alone with these replies
AloneResult(req, replies) ==
    IF Len(replies) = 1
    THEN Reply(req.conversation_id, StripThinkingTags(replies[1].content),
               ExtractActionsFromToolCalls(replies[1].tool_calls))
    ELSE Reply(req.conversation_id, StripThinkingTags(replies[2].content),
               ExtractActionsFromToolCalls(replies[1].tool_calls))

\* C19: when two calls interleave at their model invocations, each call's
\* conversation, tool messages, actions and result are made of its own
\* request and its own replies only, the result is the one it has alone, and
\* a call that starts has nothing of the call before it.
C19_RequestsIndependent ==
    \A i \in 1..2 :
        LET f == aux.frames[i]
            built == BuildMessages(f.req)
        IN f.pc # "idle" =>
            /\ SubSeq(f.messages, 1, Len(built)) = built
            /\ f.replies = <<>> =>
                 /\ f.messages = built
                 /\ f.tool_calls = <<>> /\ f.actions = <<>> /\ f.result = <<>>
            /\ f.replies # <<>> =>
                 /\ f.tool_calls = f.replies[1].tool_calls
                 /\ f.actions = ExtractActionsFromToolCalls(f.replies[1].tool_calls)
                 /\ IF f.replies[1].tool_calls = <<>>
                    THEN f.messages = built
                    ELSE \E tms \in ToolLoop(f.replies[1].tool_calls) :
                            f.messages = Append(built, AIReply(f.replies[1])) \o tms
            /\ f.pc = "returned" =>
                 /\ f.result = <<AloneResult(f.req, f.replies)>>
                 /\ Len(f.replies) = IF f.replies[1].tool_calls = <<>> THEN 1 ELSE 2
            /\ f.pc # "returned" => f.result = <<>>

C19_Witness ==
    /\ aux.frames[1].pc = "returned"
    /\ Len(aux.frames[1].replies) = 2
    /\ Len(aux.frames[1].actions) = 2
    /\ aux.frames[2].pc = "llm2"
    /\ Len(aux.frames[2].actions) = 1
    /\ aux.frames[1].req # aux.frames[2].req

\* ---------------------------------------- a reply that carries a fenced block

\* the most elements the actions array of a fenced block carries
MaxBlockActions == 2

\* the elements of an actions array, one token each: one that the registry
\* accepts and one of an unknown kind
GoodElement == "{type: upsert_profile_field, key: Age, value: 35}"
BadElement == "{type: explode}"

\* the model's text, one token per lexical unit ("[fence json]" and "[fence]"
\* stand for the triple marker with and without its tag): prose, a fence, an object
\* with a message and an actions array, the closing fence, prose
FencedTexts ==
    {before \o <<open, "{", "message", ":", m, ",", "actions", ":", "[">>
        \o els \o <<"]", "}", "[fence]">> \o after :
        before \in {<<>>, <<"Here you go:">>},
        open \in {"[fence json]", "[fence]"},
        m \in {"hi", "ok"},
        els \in SeqsUpTo({GoodElement, BadElement}, MaxBlockActions),
        after \in {<<>>, <<"Bye.">>}}

DecodeReplies ==
    {[content |-> c, tool_calls |-> <<>>] : c \in FencedTexts \cup {PlainText}}

DecodeInit ==
    /\ ChatInit
    /\ aux \in {[phase |-> "llm1", req |-> r, reply |-> NoReply, result |-> <<>>] :
                   r \in TwoRequests}

\* process_message from the first reply to its return, for a reply without
\* tool calls
DecodeReply ==
    /\ aux.phase = "llm1"
    /\ \E reply \in DecodeReplies :
         aux' = [aux EXCEPT
                   !.phase = "returned",
                   !.reply = reply,
                   !.result = <<Reply(aux.req.conversation_id,
                                      StripThinkingTags(reply.content),
                                      ExtractActionsFromToolCalls(reply.tool_calls))>>]
    /\ UNCHANGED chatVars

DecodeNext == DecodeReply

SpecDecode == DecodeInit /\ [][DecodeNext]_vars

\* where the first fence of a text opens and closes, 0 when there is none
FenceOpenAt(text) ==
    LET opens == {i \in 1..Len(text) : text[i] \in {"[fence json]", "[fence]"}}
    IN IF opens = {} THEN 0 ELSE CHOOSE i \in opens : \A k \in opens : i <= k
FenceCloseAt(text) ==
    LET closes == {j \in (FenceOpenAt(text) + 1)..Len(text) : text[j] = "[fence]"}
    IN IF FenceOpenAt(text) = 0 \/ closes = {} THEN 0
       ELSE CHOOSE j \in closes : \A k \in closes : j <= k

\* the first fenced block holds an object with a message and an actions array
HasFencedObject(text) ==
    LET i == FenceOpenAt(text)
        j == FenceCloseAt(text)
    IN /\ i > 0 /\ j >= i + 11
       /\ SubSeq(text, i + 1, i + 3) = <<"{", "message", ":">>
       /\ SubSeq(text, i + 5, i + 8) = <<",", "actions", ":", "[">>
       /\ SubSeq(text, j - 2, j - 1) = <<"]", "}">>

\* the message field of that object
FencedMessage(text) == <<text[FenceOpenAt(text) + 4]>>

\* the elements of its actions array that the registry accepts, as actions
FencedActions(text) ==
    LET els == SubSeq(text, FenceOpenAt(text) + 9, FenceCloseAt(text) - 3)
        good == SelectSeq(els, LAMBDA el : el = GoodElement)
    IN [k \in 1..Len(good) |->
          ("type" :> Str(<<ProfileTool>>)) @@ ("key" :> Str(<<"Age">>))
          @@ ("value" :> Str(<<"35">>))]

\* C21: when the normalized text of the reply holds a fenced block with an
\* object that has a message and an actions array, the returned
\* assistant_text is that message and the returned actions are the array's
\* valid elements, whatever prose surrounds the block.
C21_FencedBlockPreferred ==
    (aux.phase = "returned" /\ HasFencedObject(StripThinkingTags(aux.reply.content))) =>
        /\ aux.result[1].assistant_text = FencedMessage(StripThinkingTags(aux.reply.content))
        /\ aux.result[1].actions = FencedActions(StripThinkingTags(aux.reply.content))

\* ------------------------------------------------ eval/utils.py: get_agent

\* the evaluation tasks that run at the same time, and the items each takes
EvalThreads == 2
MaxTasks == 2

\* _agent_instance is None (0) or the n-th SiSyAgent constructed; a thread is
\* outside get_agent ("idle"), before the test of the global ("test"), inside
\* the if before the constructor ("construct"), before the assignment
\* ("store") or before the return ("ret")
EvalInit ==
    /\ ChatInit
    /\ aux \in {[phase |-> "eval", api_key |-> k, agent_instance |-> 0, constructed |-> 0,
                 th |-> [t \in 1..EvalThreads |->
                           [pc |-> "idle", new |-> 0, got |-> 0, tasks |-> 0]]] :
                   k \in {"", "key"}}

\* evaluation_task calls get_agent
EvaluationTask(t) ==
    /\ aux.th[t].pc = "idle"
    /\ aux.th[t].tasks < MaxTasks
    /\ aux' = [aux EXCEPT !.th[t].pc = "test", !.th[t].got = 0,
                          !.th[t].tasks = aux.th[t].tasks + 1]
    /\ UNCHANGED chatVars

\* if _agent_instance is None
GetAgentTest(t) ==
    /\ aux.th[t].pc = "test"
    /\ aux' = [aux EXCEPT !.th[t].pc =
                  IF aux.agent_instance = 0 THEN "construct" ELSE "ret"]
    /\ UNCHANGED chatVars

\* no key: ValueError leaves get_agent and the task
GetAgentRaise(t) ==
    /\ aux.th[t].pc = "construct"
    /\ aux.api_key = ""
    /\ aux' = [aux EXCEPT !.th[t].pc = "idle"]
    /\ UNCHANGED chatVars

\* SiSyAgent(...) is evaluated
GetAgentConstruct(t) ==
    /\ aux.th[t].pc = "construct"
    /\ aux.api_key # ""
    /\ aux' = [aux EXCEPT !.constructed = aux.constructed + 1,
                          !.th[t].new = aux.constructed + 1,
                          !.th[t].pc = "store"]
    /\ UNCHANGED chatVars

\* _agent_instance = <the new agent>
GetAgentStore(t) ==
    /\ aux.th[t].pc = "store"
    /\ aux' = [aux EXCEPT !.agent_instance = aux.th[t].new, !.th[t].pc = "ret"]
    /\ UNCHANGED chatVars

\* return _agent_instance; the task then runs to its end with that agent
GetAgentReturn(t) ==
    /\ aux.th[t].pc = "ret"
    /\ aux' = [aux EXCEPT !.th[t].got = aux.agent_instance, !.th[t].pc = "idle"]
    /\ UNCHANGED chatVars

EvalNext ==
    \E t \in 1..EvalThreads :
        \/ EvaluationTask(t)
        \/ GetAgentTest(t)
        \/ GetAgentRaise(t)
        \/ GetAgentConstruct(t)
        \/ GetAgentStore(t)
        \/ GetAgentReturn(t)

SpecEval == EvalInit /\ [][EvalNext]_vars

\* C22: however the get_agent calls of the evaluation tasks interleave, at
\* most one SiSyAgent is ever constructed and every call that returns
\* returns that one instance.
C22_OneAgentInstance ==
    aux.phase = "eval" =>
        /\ aux.constructed <= 1
        /\ \A t \in 1..EvalThreads : aux.th[t].got \in {0, 1}

\* C23: the returned actions are the calls of the first reply with a
\* registered name, one action per call and in the calls' order: as many
\* actions as such calls, the j-th action built from the j-th such call, and
\* calls that are equal give actions that are equal, each in its place.
C23_ActionsMirrorCalls ==
    (Returned /\ HasFirstReply) =>
        LET calls == FirstModelReply.tool_calls
            acts == result[1].actions
        IN /\ Len(acts) = Cardinality(Registered(calls))
           /\ \A j \in 1..Len(acts) :
                LET tc == calls[NthRegistered(calls, j)]
                IN /\ ComesFrom(acts[j], tc)
                   /\ DOMAIN acts[j] = {"type"} \cup {k \in DOMAIN tc.args : tc.args[k].t # "null"}
           /\ \A j, k \in 1..Len(acts) :
                (/\ calls[NthRegistered(calls, j)].name = calls[NthRegistered(calls, k)].name
                 /\ calls[NthRegistered(calls, j)].args = calls[NthRegistered(calls, k)].args)
                    => acts[j] = acts[k]

C23_Witness ==
    /\ pc = "done" /\ http_status = 200
    /\ Len(FirstModelReply.tool_calls) = 3
    /\ FirstModelReply.tool_calls[1].name = ProfileTool
    /\ FirstModelReply.tool_calls[2].name = "delete_everything"
    /\ FirstModelReply.tool_calls[3].name = ProfileTool
    /\ FirstModelReply.tool_calls[1].args = FirstModelReply.tool_calls[3].args
    /\ Len(http_body[1].actions) = 2
    /\ http_body[1].actions[1] = http_body[1].actions[2]

\* C24: when the first reply carries tool calls and none has a registered
\* name, the tool loop runs all the same: each call gets a tool message
\* "Unknown tool: <name>" with its id, the model is invoked a second time,
\* and what is returned is the cleaned text of the second reply with no
\* action.
C24_OnlyUnknownTools ==
    (HasFirstReply /\ FirstModelReply.tool_calls # <<>>
        /\ Registered(FirstModelReply.tool_calls) = {})
    => LET calls == FirstModelReply.tool_calls
       IN /\ actions = <<>>
          /\ pc \notin {"tools"} => Len(llm_log) >= 3 /\ llm_log[3].ev = "invoke"
          /\ Len(llm_log) >= 3 =>
               /\ Len(ToolMessagesOf(llm_log[3].msgs)) = Len(calls)
               /\ \A i \in 1..Len(calls) :
                    /\ ToolMessagesOf(llm_log[3].msgs)[i].content
                         = <<"Unknown tool: ", calls[i].name>>
                    /\ ToolMessagesOf(llm_log[3].msgs)[i].tool_call_id = calls[i].id
          /\ Returned =>
               /\ HasFinalReply
               /\ LLMInvocations = 2
               /\ result[1].assistant_text = StripThinkingTags(FinalModelReply.content)
               /\ result[1].actions = <<>>

C24_Witness ==
    /\ pc = "done" /\ http_status = 200
    /\ Len(FirstModelReply.tool_calls) = 2
    /\ \A i \in 1..2 : FirstModelReply.tool_calls[i].name = "delete_everything"
    /\ Len(tool_log) = 2
    /\ LLMInvocations = 2
    /\ http_body[1].actions = <<>>
    /\ http_body[1].assistant_text = <<"Done.">>

\* C25: the action list is complete when the first reply has been read,
\* before any tool is executed, and the executions leave it alone: a call
\* with a registered name has its action whether its execution gave a
\* confirmation or an error.
C25_ActionsBeforeExecution ==
    HasFirstReply =>
        /\ Len(actions) = Cardinality(Registered(tool_calls))
        /\ \A i \in 1..Len(tool_log) :
             tool_log[i].name \in AGENT_TOOLS =>
                LET j == Cardinality({k \in Registered(tool_calls) : k <= i})
                IN /\ tool_log[i].ran \/ tool_log[i].caught
                   /\ ComesFrom(actions[j], tool_calls[i])
        /\ Returned => result[1].actions = actions

C25_Witness ==
    /\ pc = "returned"
    /\ Len(tool_log) = 2
    /\ tool_log[1].caught /\ tool_log[1].name = RoutineTool
    /\ tool_log[2].ran
    /\ Len(result[1].actions) = 2
    /\ "title" \in DOMAIN tool_calls[1].args
    /\ tool_calls[1].args["title"] = Str(<<"Gym">>)
    /\ "title" \in DOMAIN result[1].actions[1]
    /\ result[1].actions[1]["title"] = Str(<<"Gym">>)

MaxRequests == 3

\* what a call of process_message can come to: the model invocations made,
\* and whether it returned (200) or raised (500)
ProcessOutcomes ==
    {[status |-> 200, invocations |-> 1], [status |-> 200, invocations |-> 2],
     [status |-> 500, invocations |-> 0], [status |-> 500, invocations |-> 1],
     [status |-> 500, invocations |-> 2]}

\* agent: None (FALSE) or the SiSyAgent; life: where lifespan() is; served:
\* one entry per /chat request, with whether the agent was set when it came
AppInit ==
    /\ ChatInit
    /\ aux \in {[phase |-> "app", api_key |-> k, agent |-> FALSE, life |-> "init",
                 flushes |-> 0, served |-> <<>>] : k \in {"", "key"}}

\* lifespan() up to its yield, with a key
LifespanStartup ==
    /\ aux.life = "init"
    /\ aux.api_key # ""
    /\ aux' = [aux EXCEPT !.agent = TRUE, !.life = "running"]
    /\ UNCHANGED chatVars

\* lifespan() without a key: RuntimeError before the agent is made
LifespanStartupFails ==
    /\ aux.life = "init"
    /\ aux.api_key = ""
    /\ aux' = [aux EXCEPT !.life = "failed"]
    /\ UNCHANGED chatVars

\* lifespan() after its yield
LifespanShutdown ==
    /\ aux.life = "running"
    /\ aux' = [aux EXCEPT !.life = "stopped",
                          !.flushes = IF aux.agent THEN aux.flushes + 1 ELSE aux.flushes]
    /\ UNCHANGED chatVars

\* a plausible slip: no test of the agent, the call on None raises inside the
\* try and is answered 500
AppChatNoGate ==
    /\ aux.life # "stopped"
    /\ Len(aux.served) < MaxRequests
    /\ \E out \in ProcessOutcomes :
         /\ ~aux.agent => out = [status |-> 500, invocations |-> 0]
         /\ aux' = [aux EXCEPT !.served =
                       Append(aux.served, [agent |-> aux.agent, status |-> out.status,
                                           invocations |-> out.invocations])]
    /\ UNCHANGED chatVars

\* chat(): 503 while the agent is unset, else the call of process_message
AppChat ==
    /\ aux.life # "stopped"
    /\ Len(aux.served) < MaxRequests
    /\ \E out \in ProcessOutcomes :
         /\ ~aux.agent => out = [status |-> 500, invocations |-> 0]
         /\ aux' = [aux EXCEPT !.served =
                       Append(aux.served,
                              IF ~aux.agent
                              THEN [agent |-> FALSE, status |-> 503, invocations |-> 0]
                              ELSE [agent |-> TRUE, status |-> out.status,
                                    invocations |-> out.invocations])]
    /\ UNCHANGED chatVars

AppNext ==
    \/ LifespanStartup
    \/ LifespanStartupFails
    \/ LifespanShutdown
    \/ AppChat

SpecApp == AppInit /\ [][AppNext]_vars

MaxJsonLen == 3

\* the lexical units of a JSON text: "k" is a string literal, "1" a number
JsonAlphabet == {"{", "}", "[", "]", ":", ",", "k", "1"}

\* json.loads accepts s from position i on: the position behind the value
\* that starts at i, 0 when there is none
RECURSIVE ParseValue(_, _)
RECURSIVE ParseElems(_, _)
RECURSIVE ParseMembers(_, _)
ParseValue(s, i) ==
    IF i > Len(s) THEN 0
    ELSE IF s[i] \in {"k", "1"} THEN i + 1
    ELSE IF s[i] = "[" THEN
        IF i + 1 <= Len(s) /\ s[i + 1] = "]" THEN i + 2 ELSE ParseElems(s, i + 1)
    ELSE IF s[i] = "{" THEN
        IF i + 1 <= Len(s) /\ s[i + 1] = "}" THEN i + 2 ELSE ParseMembers(s, i + 1)
    ELSE 0
ParseElems(s, i) ==
    LET j == ParseValue(s, i)
    IN IF j = 0 \/ j > Len(s) THEN 0
       ELSE IF s[j] = "]" THEN j + 1
       ELSE IF s[j] = "," THEN ParseElems(s, j + 1)
       ELSE 0
ParseMembers(s, i) ==
    IF i + 1 > Len(s) \/ s[i] # "k" \/ s[i + 1] # ":" THEN 0
    ELSE LET j == ParseValue(s, i + 2)
         IN IF j = 0 \/ j > Len(s) THEN 0
            ELSE IF s[j] = "}" THEN j + 1
            ELSE IF s[j] = "," THEN ParseMembers(s, j + 1)
            ELSE 0

\* Python values: None, or a decoded JSON value given by its kind and its
\* text without white space
PyNone == [kind |-> "none", toks |-> <<>>]
EmptyList == [kind |-> "list", toks |-> <<"[", "]">>]
KindOf(tok) ==
    IF tok = "{" THEN "dict" ELSE IF tok = "[" THEN "list"
    ELSE IF tok = "k" THEN "str" ELSE "num"

\* json.loads(text): the value, or JSONDecodeError
JsonLoads(text) ==
    LET s == SelectSeq(text, LAMBDA tok : tok # " ")
    IN IF s # <<>> /\ ParseValue(s, 1) = Len(s) + 1
       THEN [ok |-> TRUE, value |-> [kind |-> KindOf(s[1]), toks |-> s]]
       ELSE [ok |-> FALSE, value |-> PyNone]

\* bool(v)
Truthy(v) == v.kind # "none" /\ v.toks \notin {<<"{", "}">>, <<"[", "]">>}

\* a form field: not sent, or sent with a text
NoField == [sent |-> FALSE, text |-> <<>>]
Field(text) == [sent |-> TRUE, text |-> text]

SpacedContext == <<" ", "{", "k", ":", " ", "{", "}", ",", "k", ":", "[", "]", "}", " ">>
CutContext == <<"{", "k", ":", "{", "}", ",", "k", ":", "[">>
HistoryOfTwo == <<"[", "{", "k", ":", "k", "}", ",", " ", "{", "k", ":", "k", "}", "]">>

EnumeratedFields ==
    {NoField} \cup {Field(t) : t \in SeqsUpTo(JsonAlphabet, MaxJsonLen)
                                    \cup {SpacedContext, CutContext, HistoryOfTwo, <<" ">>}}
SampleFields ==
    {NoField, Field(<<>>), Field(CutContext), Field(SpacedContext), Field(HistoryOfTwo)}

FormRequests ==
    {[user_context |-> c, message_history |-> h] :
        c \in EnumeratedFields, h \in SampleFields}
    \cup
    {[user_context |-> c, message_history |-> h] :
        c \in SampleFields, h \in EnumeratedFields}

FormInit ==
    /\ ChatInit
    /\ aux \in {[phase |-> "form", form |-> f, calls |-> <<>>, invocations |-> 0,
                 status |-> 0] : f \in FormRequests}

\* a plausible slip: JSONDecodeError is not caught where the field is read
ParsedFieldUncaught(field, default) ==
    IF ~field.sent \/ field.text = <<>> THEN [ok |-> TRUE, value |-> default]
    ELSE JsonLoads(field.text)

\* chat(): the value a field gives, default when it is not sent, empty or
\* does not parse
ParsedField(field, default) ==
    IF ~field.sent \/ field.text = <<>> THEN [ok |-> TRUE, value |-> default]
    ELSE IF JsonLoads(field.text).ok THEN JsonLoads(field.text)
    ELSE [ok |-> TRUE, value |-> default]

\* process_message up to the first invocation raises: .get on a context
\* that is no mapping, or a loop over a history that is a number
StartRaises(context, history) ==
    \/ Truthy(context) /\ context.kind # "dict"
    \/ Truthy(history) /\ history.kind = "num"

\* chat() from the form fields to the first model invocation, or to the 500
\* of an exception
ChatForm ==
    /\ aux.phase = "form"
    /\ LET c == ParsedField(aux.form.user_context, PyNone)
           h == ParsedField(aux.form.message_history, EmptyList)
       IN IF ~c.ok \/ ~h.ok
          THEN aux' = [aux EXCEPT !.phase = "done", !.status = 500]
          ELSE IF StartRaises(c.value, h.value)
          THEN aux' = [aux EXCEPT
                         !.phase = "done", !.status = 500,
                         !.calls = <<[user_context |-> c.value,
                                      message_history |-> h.value]>>]
          ELSE aux' = [aux EXCEPT
                         !.phase = "llm1", !.invocations = 1,
                         !.calls = <<[user_context |-> c.value,
                                      message_history |-> h.value]>>]
    /\ UNCHANGED chatVars

FormNext == ChatForm

SpecForm == FormInit /\ [][FormNext]_vars

\* the field was sent with a text that json.loads refuses
Malformed(field) == field.sent /\ field.text # <<>> /\ ~JsonLoads(field.text).ok

\* what the agent is given for a field that is fine
GivenFor(field, default) ==
    IF ~field.sent \/ field.text = <<>> THEN default
    ELSE [kind |-> KindOf(SelectSeq(field.text, LAMBDA tok : tok # " ")[1]),
          toks |-> SelectSeq(field.text, LAMBDA tok : tok # " ")]

\* C28: a user_context or message_history field that is no JSON does not
\* fail the request: the agent is called exactly once, with user_context
\* None for a user_context that does not parse and message_history [] for a
\* message_history that does not parse, the other field's value being what
\* it is without that; with nothing else wrong the model is invoked.
C28_MalformedFieldsTolerated ==
    (aux.phase \in {"llm1", "done"}
        /\ (Malformed(aux.form.user_context) \/ Malformed(aux.form.message_history)))
    => /\ Len(aux.calls) = 1
       /\ Malformed(aux.form.user_context) =>
            /\ aux.calls[1].user_context = PyNone
            /\ ~Malformed(aux.form.message_history) =>
                 aux.calls[1].message_history
                    = GivenFor(aux.form.message_history, EmptyList)
       /\ Malformed(aux.form.message_history) =>
            /\ aux.calls[1].message_history = EmptyList
            /\ ~Malformed(aux.form.user_context) =>
                 aux.calls[1].user_context = GivenFor(aux.form.user_context, PyNone)
       /\ (Malformed(aux.form.user_context) /\ Malformed(aux.form.message_history))
            => aux.phase = "llm1" /\ aux.invocations = 1 /\ aux.status = 0
       /\ aux.form.user_context = Field(CutContext) => Malformed(aux.form.user_context)
       /\ aux.form.message_history = Field(<<"[", ",">>)
            => Malformed(aux.form.message_history)

C28_Witness ==
    /\ aux.phase = "llm1"
    /\ aux.form.user_context = Field(CutContext)
    /\ aux.form.message_history = Field(HistoryOfTwo)
    /\ Len(aux.calls) = 1
    /\ aux.calls[1].user_context = PyNone
    /\ aux.calls[1].message_history.kind = "list"
    /\ Len(aux.calls[1].message_history.toks) = 13

\* C29: a failed image analysis does not end the request: the current turn
\* handed to the model is the user's text followed by the note that the
\* analysis failed, the model is invoked, once without tool calls and twice
\* with; after an analysis that succeeded the current turn is the user's
\* text followed by the note with the description.
C29_ImageFailureTolerated ==
    (pc # "idle" /\ request.image) =>
        LET first == llm_log[1].msgs
            turn == first[Len(first)]
            n == Len(request.text)
        IN /\ llm_log[1].ev = "invoke"
           /\ turn.role = "human"
           /\ SubSeq(turn.content, 1, n) = request.text
           /\ request.vlm = "fail" =>
                /\ Len(turn.content) = n + 1
                /\ turn.content[n + 1]
                     = "\n\n[System Note: The user attached an image, but analysis failed.]"
           /\ request.vlm = "ok" =>
                /\ Len(turn.content) = n + 3
                /\ turn.content[n + 2] = "a photo"
           /\ LLMInvocations <= 2
           /\ Returned =>
                LLMInvocations = IF FirstModelReply.tool_calls = <<>> THEN 1 ELSE 2

C29_Witness ==
    /\ pc = "done" /\ http_status = 200
    /\ request.image /\ request.vlm = "fail"
    /\ LLMInvocations = 2
    /\ llm_log[1].msgs[Len(llm_log[1].msgs)].content
         = <<"pic", "\n\n[System Note: The user attached an image, but analysis failed.]">>

\* --------------------------------------- MinimaxAPIClient._make_request

\* what the server may answer: the transport fails or not, the HTTP status,
\* and the body: no JSON, a JSON array, or an object whose base_resp is
\* absent, null or an object with or without a status_code
Bodies ==
    {[json |-> FALSE, kind |-> "text", base_resp |-> "absent", status_code |-> Null],
     [json |-> TRUE, kind |-> "list", base_resp |-> "absent", status_code |-> Null],
     [json |-> TRUE, kind |-> "dict", base_resp |-> "absent", status_code |-> Null],
     [json |-> TRUE, kind |-> "dict", base_resp |-> "null", status_code |-> Null]}
    \cup
    {[json |-> TRUE, kind |-> "dict", base_resp |-> "dict", status_code |-> c] :
        c \in {Null, Num(<<"0">>), Num(<<"1004">>), Num(<<"2038">>), Num(<<"1000">>),
               Str(<<"0">>)}}

Responses ==
    {[transport |-> t, http |-> h, body |-> b, files |-> f] :
        t \in {"ok", "fail"}, h \in {200, 401, 500}, b \in Bodies, f \in BOOLEAN}

Returns(data) == [kind |-> "return", exc |-> "", data |-> <<data>>]
Raises(exc) == [kind |-> "raise", exc |-> exc, data |-> <<>>]

\* The outcomes of _make_request for a response.  response.json() on a body
\* that is no JSON raises a RequestException in the current requests
\* library and a plain ValueError in older ones; .get on what is no mapping
\* raises AttributeError.
MakeRequestOutcomes(resp) ==
    IF resp.transport = "fail" THEN {Raises("MinimaxRequestError")}
    ELSE IF resp.http >= 400 THEN {Raises("MinimaxRequestError")}
    ELSE IF ~resp.body.json THEN {Raises("MinimaxRequestError"), Raises("ValueError")}
    ELSE IF resp.body.kind # "dict" THEN {Raises("AttributeError")}
    ELSE IF resp.body.base_resp = "null" THEN {Raises("AttributeError")}
    ELSE IF resp.body.status_code = Num(<<"0">>) THEN {Returns(resp.body)}
    ELSE IF resp.body.status_code = Num(<<"1004">>) THEN {Raises("MinimaxAuthError")}
    ELSE {Raises("MinimaxRequestError")}

ClientInit ==
    /\ ChatInit
    /\ aux \in {[phase |-> "request", resp |-> r, content_type |-> "unset",
                 outcome |-> Raises("")] : r \in Responses}

\* one call of _make_request
MakeRequest ==
    /\ aux.phase = "request"
    /\ \E out \in MakeRequestOutcomes(aux.resp) :
         aux' = [aux EXCEPT
                   !.phase = "done",
                   !.content_type = IF aux.resp.files THEN "unset" ELSE "application/json",
                   !.outcome = out]
    /\ UNCHANGED chatVars

ClientNext == MakeRequest

SpecClient == ClientInit /\ [][ClientNext]_vars

\* C30: _make_request returns the data only when the body's
\* base_resp.status_code is 0; it raises MinimaxAuthError for 1004 and
\* MinimaxRequestError for every other status code, for a body without
\* base_resp and for a failed transport or HTTP status; nothing else
\* escapes and an error path returns no data.
C30_OnlyClientErrorsEscape ==
    aux.phase = "done" =>
        LET out == aux.outcome
            resp == aux.resp
            good == /\ resp.transport = "ok" /\ resp.http < 400
                    /\ resp.body.json /\ resp.body.kind = "dict"
                    /\ resp.body.base_resp = "dict"
                    /\ resp.body.status_code = Num(<<"0">>)
        IN /\ out.kind = "return" <=> good
           /\ out.kind = "return" => out.data = <<resp.body>>
           /\ out.kind = "raise" =>
                /\ out.data = <<>>
                /\ out.exc \in {"MinimaxAuthError", "MinimaxRequestError"}
                /\ out.exc = "MinimaxAuthError" <=>
                     (/\ resp.transport = "ok" /\ resp.http < 400
                      /\ resp.body.status_code = Num(<<"1004">>))

====
